---------------------------- MODULE Spec2Model ----------------------------
(***************************************************************************)
(* A model of ip/ipnexthop.c (iproute2): the list / flush / bucket-list    *)
(* commands with their process-wide dump filter and the two netlink        *)
(* handles (rth, rth_del), the group-member parser and printer, the        *)
(* resilient-group timer parser and the address-family resolution of       *)
(* ipnh_modify.                                                            *)
(***************************************************************************)
EXTENDS Integers, Sequences, FiniteSets, TLC

\* ------------------------------------------------------------------ bounds
\* selector clauses on the command line of one list / flush / bucket command
MaxArgs == 2
\* commands run back to back in one process (ip -batch)
MaxCmds == 2

\* ------------------------------------------------------------ the kernel
\* A nexthop of the kernel's table: grp is the set of member ids of a group
\* (empty for a plain nexthop), oif / master are interface indices (0: none).
Nh(i, g, p, o, m, f) ==
    [id |-> i, grp |-> g, proto |-> p, oif |-> o, master |-> m, fdb |-> f]

\* nexthop 1 = group referencing nexthop 2, nexthop 2 = plain
TableC1 == { Nh(1, {2}, 3, 0, 0, FALSE), Nh(2, {}, 3, 1, 0, FALSE) }

\* a plain nexthop on dev 1 / master 1, an fdb nexthop, and a group whose id
\* is larger than its member's
TableMixed ==
    { Nh(1, {}, 4, 1, 1, FALSE), Nh(2, {}, 3, 0, 0, TRUE),
      Nh(3, {1}, 4, 0, 0, FALSE) }

Tables == { {}, TableC1, TableMixed }

\* resilient-group buckets the kernel reports for a group that is installed
\* (one bucket per group keeps the dump order the order of the group ids)
BucketTable ==
    { [id |-> 1, index |-> 0, idle |-> 500, nhid |-> 2],
      [id |-> 3, index |-> 3, idle |-> 500, nhid |-> 1] }

\* attributes of a request: a set of <<type, value>> pairs
HasAttr(req, t) == \E a \in req : a[1] = t
AttrVal(req, t) == (CHOOSE a \in req : a[1] = t)[2]

\* the nexthop message the kernel sends for nh
NhMsg(nh) ==
    [type |-> "RTM_NEWNEXTHOP", short |-> FALSE, proto |-> nh.proto,
     tb |-> {"NHA_ID"}, id |-> nh.id]

BucketMsg(b) ==
    [type |-> "RTM_NEWNEXTHOPBUCKET", short |-> FALSE, proto |-> 0,
     tb |-> {"NHA_ID", "NHA_RES_BUCKET"}, id |-> b.id,
     index |-> b.index, idle |-> b.idle, nhid |-> b.nhid]

\* messages no well-behaved kernel sends, which the callbacks guard against:
\* no NHA_ID attribute, NHA_ID of 0, nlmsg_len shorter than the header, and a
\* message of another kind
NoiseMsgs ==
    { [type |-> "RTM_NEWNEXTHOP", short |-> FALSE, proto |-> 3, tb |-> {}, id |-> 0],
      [type |-> "RTM_NEWNEXTHOP", short |-> FALSE, proto |-> 3, tb |-> {"NHA_ID"}, id |-> 0],
      [type |-> "RTM_NEWNEXTHOP", short |-> TRUE, proto |-> 3, tb |-> {}, id |-> 0],
      [type |-> "RTM_NEWROUTE", short |-> FALSE, proto |-> 3, tb |-> {"NHA_ID"}, id |-> 2] }

Noises == { <<>> } \cup { <<m>> : m \in NoiseMsgs }

RECURSIVE SeqById(_)
SeqById(S) ==
    IF S = {} THEN <<>>
    ELSE LET m == CHOOSE x \in S : \A y \in S : x.id <= y.id
         IN  <<m>> \o SeqById(S \ {m})

\* the kernel's selection of nexthops for a dump request
NhMatches(nh, req) ==
    /\ HasAttr(req, "NHA_OIF") => nh.oif = AttrVal(req, "NHA_OIF")
    /\ HasAttr(req, "NHA_GROUPS") => nh.grp # {}
    /\ HasAttr(req, "NHA_MASTER") => nh.master = AttrVal(req, "NHA_MASTER")
    /\ HasAttr(req, "NHA_FDB") => nh.fdb

KernelDump(tbl, req) ==
    SeqById({ NhMsg(nh) : nh \in { n \in tbl : NhMatches(n, req) } })

KernelBucketDump(tbl, req) ==
    SeqById({ BucketMsg(b) : b \in
        { b \in BucketTable :
            /\ \E g \in tbl : g.id = b.id /\ g.grp # {} /\ NhMatches(g, req \ {a \in req : a[1] = "NHA_GROUPS"})
            /\ HasAttr(req, "NHA_ID") => b.id = AttrVal(req, "NHA_ID")
            /\ HasAttr(req, "NHA_RES_BUCKET_NH_ID") => b.nhid = AttrVal(req, "NHA_RES_BUCKET_NH_ID") } })

\* the kernel refuses to delete a nexthop that is absent or that a group
\* still references
CanDelete(tbl, id) ==
    /\ \E nh \in tbl : nh.id = id
    /\ ~ \E g \in tbl : id \in g.grp

AfterDelete(tbl, id) == { nh \in tbl : nh.id # id }


\* ------------------------------------------------------ the program state
VARIABLES
    pc,        \* position of the process in the running command
    filter,    \* the file-scope struct filter
    rth_del,   \* the delete handle: TRUE when its socket is open (fd >= 0)
    rth,       \* the main handle: "idle", or "dump" while a dump is streamed
    table,     \* the kernel's nexthop table
    stream,    \* messages of the running dump not yet handed to the callback
    noise,     \* malformed messages in front of every dump of this run
    action,    \* IPNH_LIST or IPNH_FLUSH (or "BUCKET" for ip nexthop bucket list)
    all,       \* ipnh_flush's parameter
    nhid,      \* the id given to ipnh_list_flush_id
    rc,        \* the command's return value
    out,       \* lines written to stdout / stderr by the command
    printed,   \* records printed by print_nexthop / print_nexthop_bucket
    sent,      \* requests written to the netlink sockets by the command
    cbret,     \* the dump callback's calls, in order: the value returned, the
               \* message's protocol, the id it asked to delete (0: none) and
               \* whether the kernel deleted it
    argv,      \* the command's selector clauses
    succ,      \* delete requests of this command the kernel carried out
    faulted,   \* some delete failed for a reason other than the kernel's refusal
    table0,    \* the kernel's table when the command started
    cmds       \* commands started in this process

flushVars ==
    <<pc, filter, rth_del, rth, table, stream, noise, action, all, nhid, rc,
      out, printed, sent, cbret, argv, succ, faulted, table0, cmds>>

\* the request builders and parsers (ipnh_modify and what it calls)
VARIABLES
    ulong_bits,        \* width of unsigned long in this build: 32 or 64
    preferred_family,  \* ip's -4 / -6 / -family option
    p_pc,              \* position of the builder
    p_argv,            \* the arguments still to be consumed
    p_req,             \* the request being built
    p_out              \* what came of it: the printed text, or the error

parseVars == <<ulong_bits, preferred_family, p_pc, p_argv, p_req, p_out>>

vars == <<flushVars, parseVars>>

\* static struct { ... } filter: zero-initialised
ZeroFilter ==
    [flushed |-> 0, groups |-> 0, ifindex |-> 0, master |-> 0, proto |-> 0,
     fdb |-> 0, id |-> 0, nhid |-> 0]

Line(m, n) == [msg |-> m, n |-> n]

\* -------------------------------------------------------- filter building
nh_dump_filter(f) ==
    (IF f.ifindex # 0 THEN { <<"NHA_OIF", f.ifindex>> } ELSE {})
    \cup (IF f.groups # 0 THEN { <<"NHA_GROUPS", 0>> } ELSE {})
    \cup (IF f.master # 0 THEN { <<"NHA_MASTER", f.master>> } ELSE {})
    \cup (IF f.fdb # 0 THEN { <<"NHA_FDB", 0>> } ELSE {})

nh_dump_bucket_filter(f) ==
    nh_dump_filter(f)
    \cup (IF f.id # 0 THEN { <<"NHA_ID", f.id>> } ELSE {})
    \cup (IF f.nhid # 0 THEN { <<"NHA_RES_BUCKET_NH_ID", f.nhid>> } ELSE {})

\* ------------------------------------------------------ selector clauses
Clause(k, v) == [kw |-> k, val |-> v]

\* dev 0 names a device that does not exist (ll_name_to_index returns 0)
ListFlushClauses ==
    { Clause("dev", 1), Clause("dev", 0), Clause("groups", 0),
      Clause("master", 1), Clause("vrf", 1), Clause("id", 2),
      Clause("protocol", 3), Clause("fdb", 0) }

BucketClauses ==
    { Clause("dev", 1), Clause("master", 1), Clause("vrf", 1),
      Clause("id", 3), Clause("nhid", 1), Clause("nhid", 2) }

RECURSIVE SeqsUpTo(_, _)
SeqsUpTo(S, n) ==
    IF n = 0 THEN { <<>> }
    ELSE LET shorter == SeqsUpTo(S, n - 1)
         IN  shorter \cup { Append(q, x) : q \in shorter, x \in S }

\* ipnh_list_flush's argument loop: the filter it leaves and why it stopped
\* ("end" of the arguments, an "id" clause, or invarg's exit)
RECURSIVE list_flush_args(_, _)
list_flush_args(f, args) ==
    IF args = <<>> THEN [filter |-> f, stop |-> "end", id |-> 0]
    ELSE LET a == Head(args) IN
         CASE a.kw = "dev" ->
                IF a.val = 0
                THEN [filter |-> [f EXCEPT !.ifindex = 0], stop |-> "invarg", id |-> 0]
                ELSE list_flush_args([f EXCEPT !.ifindex = a.val], Tail(args))
           [] a.kw = "groups" ->
                list_flush_args([f EXCEPT !.groups = 1], Tail(args))
           [] a.kw \in {"master", "vrf"} ->
                IF a.val = 0
                THEN [filter |-> [f EXCEPT !.master = 0], stop |-> "invarg", id |-> 0]
                ELSE list_flush_args([f EXCEPT !.master = a.val], Tail(args))
           [] a.kw = "id" ->
                [filter |-> f, stop |-> "id", id |-> a.val]
           [] a.kw = "protocol" ->
                list_flush_args([f EXCEPT !.proto = a.val], Tail(args))
           [] a.kw = "fdb" ->
                list_flush_args([f EXCEPT !.fdb = 1], Tail(args))
           [] OTHER ->
                [filter |-> f, stop |-> "invarg", id |-> 0]

\* ipnh_bucket_list's argument loop
RECURSIVE bucket_list_args(_, _)
bucket_list_args(f, args) ==
    IF args = <<>> THEN [filter |-> f, stop |-> "end", id |-> 0]
    ELSE LET a == Head(args) IN
         CASE a.kw = "dev" ->
                IF a.val = 0
                THEN [filter |-> [f EXCEPT !.ifindex = 0], stop |-> "invarg", id |-> 0]
                ELSE bucket_list_args([f EXCEPT !.ifindex = a.val], Tail(args))
           [] a.kw \in {"master", "vrf"} ->
                IF a.val = 0
                THEN [filter |-> [f EXCEPT !.master = 0], stop |-> "invarg", id |-> 0]
                ELSE bucket_list_args([f EXCEPT !.master = a.val], Tail(args))
           [] a.kw = "id" ->
                bucket_list_args([f EXCEPT !.id = a.val], Tail(args))
           [] a.kw = "nhid" ->
                bucket_list_args([f EXCEPT !.nhid = a.val], Tail(args))
           [] OTHER ->
                [filter |-> f, stop |-> "invarg", id |-> 0]

\* mutant: the groups-only pass is forgotten
flush_all_filter_no_groups(f, a) ==
    IF a THEN [f EXCEPT !.groups = 0, !.ifindex = 0, !.master = 0] ELSE f

\* ipnh_flush, "if (all)": flush everything, groups first
flush_all_filter(f, a) ==
    IF a THEN [f EXCEPT !.groups = 1, !.ifindex = 0, !.master = 0] ELSE f

\* ------------------------------------------------------------ callbacks
\* mutant: the protocol filter is not applied before the delete
flush_nexthop_cb_no_proto(f, m) ==
    IF m.short THEN [ret |-> -1, del |-> 0]
    ELSE [ret |-> 0, del |-> IF "NHA_ID" \in m.tb THEN m.id ELSE 0]

\* flush_nexthop up to its call of delete_nexthop: the value it returns to
\* the dump and the id it asks to delete (0: none)
flush_nexthop_cb(f, m) ==
    IF m.short THEN [ret |-> -1, del |-> 0]
    ELSE IF f.proto # 0 /\ m.proto # f.proto THEN [ret |-> 0, del |-> 0]
    ELSE [ret |-> 0, del |-> IF "NHA_ID" \in m.tb THEN m.id ELSE 0]

\* mutant: the result of delete_nexthop is ignored
flush_count_attempts(f, id, deleted) ==
    IF id # 0 THEN [f EXCEPT !.flushed = f.flushed + 1] ELSE f

\* flush_nexthop: "if (id && !delete_nexthop(id)) filter.flushed++"
flush_count(f, id, deleted) ==
    IF id # 0 /\ deleted THEN [f EXCEPT !.flushed = f.flushed + 1] ELSE f

\* print_nexthop: the value it returns and the record it prints (none: {})
print_nexthop_cb(f, m) ==
    IF m.type \notin {"RTM_DELNEXTHOP", "RTM_NEWNEXTHOP"} THEN [ret |-> -1, recs |-> {}]
    ELSE IF m.short THEN [ret |-> -1, recs |-> {}]
    ELSE IF f.proto # 0 /\ f.proto # m.proto THEN [ret |-> 0, recs |-> {}]
    ELSE [ret |-> 0,
          recs |-> { [deleted |-> m.type = "RTM_DELNEXTHOP",
                      has_id |-> "NHA_ID" \in m.tb, id |-> m.id,
                      proto |-> m.proto] }]

\* print_nexthop_bucket
print_nexthop_bucket_cb(m) ==
    IF m.type \notin {"RTM_DELNEXTHOPBUCKET", "RTM_NEWNEXTHOPBUCKET"} THEN [ret |-> -1, recs |-> {}]
    ELSE IF m.short THEN [ret |-> -1, recs |-> {}]
    ELSE [ret |-> 0,
          recs |-> { [deleted |-> m.type = "RTM_DELNEXTHOP",
                      has_id |-> "NHA_ID" \in m.tb, id |-> m.id,
                      index |-> m.index, idle_time |-> m.idle \div 100,
                      nhid |-> m.nhid] }]

Call(ret, m, del, ok) == [ret |-> ret, proto |-> m.proto, del |-> del, ok |-> ok]

\* mutant: the delete is sent on the handle of the running dump
delete_nexthop_on_rth == "rth"

\* the handle delete_nexthop talks on
delete_nexthop_handle == "rth_del"

\* mutant: rc starts as success
flush_rc_init_success == -2 + 2

\* ipnh_flush: "int rc = -2"
flush_rc_init == -2

\* mutant: the error paths return without passing through out:
flush_return_on_error == "done"

\* where ipnh_flush goes when the dump request or the dump fails ("goto out")
flush_on_error == "flush_out"

\* the request the running dump was started with
LastDump(log) ==
    LET I == { i \in 1..Len(log) : log[i].type = "DUMP" }
    IN  IF I = {} THEN {} ELSE log[CHOOSE i \in I : \A j \in I : j <= i].req

Request(conn, type, req, id, ok) ==
    [conn |-> conn, type |-> type, req |-> req, id |-> id, ok |-> ok,
     dumping |-> (rth = "dump"), del_open |-> rth_del,
     of_dump |-> LastDump(sent)]

\* no request is being built
ParseIdle ==
    /\ ulong_bits = 64
    /\ preferred_family = "AF_UNSPEC"
    /\ p_pc = "none"
    /\ p_argv = <<>>
    /\ p_req = <<>>
    /\ p_out = <<>>

\* ------------------------------------------------------------- commands
Init ==
    /\ pc = "idle"
    /\ filter = ZeroFilter
    /\ rth_del = FALSE
    /\ rth = "idle"
    /\ table \in Tables
    /\ stream = <<>>
    /\ noise \in Noises
    /\ action = "IPNH_LIST"
    /\ all = FALSE
    /\ nhid = 0
    /\ rc = 0
    /\ out = <<>>
    /\ printed = <<>>
    /\ sent = <<>>
    /\ cbret = <<>>
    /\ argv = <<>>
    /\ succ = 0
    /\ faulted = FALSE
    /\ table0 = table
    /\ cmds = 0
    /\ ParseIdle

\* ipnh_list_flush up to its first request to the kernel
ipnh_list_flush(args, act) ==
    /\ pc = "idle"
    /\ LET r == list_flush_args(filter, args) IN
        /\ argv' = args
        /\ action' = act
        /\ all' = (args = <<>>)
        /\ nhid' = r.id
        /\ cmds' = cmds + 1
        /\ CASE r.stop = "invarg" ->
                  /\ filter' = r.filter
                  /\ pc' = "exit" /\ rc' = -1
                  /\ out' = Append(out, Line("invarg", 0))
             [] r.stop = "id" ->
                  /\ filter' = r.filter
                  /\ pc' = (IF act = "IPNH_LIST" THEN "get_talk" ELSE "flushid_open")
                  /\ UNCHANGED <<rc, out>>
             [] r.stop = "end" /\ act = "IPNH_FLUSH" ->
                  /\ filter' = flush_all_filter(r.filter, args = <<>>)
                  /\ pc' = "flush_open" /\ rc' = flush_rc_init
                  /\ UNCHANGED out
             [] OTHER ->
                  /\ filter' = r.filter
                  /\ pc' = "list_req"
                  /\ UNCHANGED <<rc, out>>
    /\ UNCHANGED parseVars
    /\ UNCHANGED <<rth_del, rth, table, stream, noise, printed, sent, cbret,
                   succ, faulted, table0>>

\* ipnh_bucket_list up to its dump request
ipnh_bucket_list(args) ==
    /\ pc = "idle"
    /\ LET r == bucket_list_args(filter, args) IN
        /\ argv' = args
        /\ action' = "BUCKET"
        /\ cmds' = cmds + 1
        /\ filter' = r.filter
        /\ IF r.stop = "invarg"
           THEN pc' = "exit" /\ rc' = -1 /\ out' = Append(out, Line("invarg", 0))
           ELSE pc' = "bucket_req" /\ UNCHANGED <<rc, out>>
    /\ UNCHANGED parseVars
    /\ UNCHANGED <<rth_del, rth, table, stream, noise, all, nhid, printed,
                   sent, cbret, succ, faulted, table0>>

\* ------------------------------------------------------------ ipnh_flush
\* rtnl_open(&rth_del, 0)
flush_open ==
    /\ pc = "flush_open"
    /\ \E ok \in BOOLEAN :
        IF ok
        THEN /\ rth_del' = TRUE
             /\ pc' = "flush_again"
             /\ UNCHANGED <<rc, out>>
        ELSE /\ out' = Append(out, Line("Cannot open rtnetlink", 0))
             /\ rc' = 1
             /\ pc' = "done"
             /\ UNCHANGED rth_del
    /\ UNCHANGED parseVars
    /\ UNCHANGED <<filter, rth, table, stream, noise, action, all, nhid,
                   printed, sent, cbret, argv, succ, faulted, table0, cmds>>

\* again: rtnl_nexthopdump_req(&rth, preferred_family, nh_dump_filter)
flush_dump_req ==
    /\ pc = "flush_again"
    /\ \E ok \in BOOLEAN :
        IF ok
        THEN /\ sent' = Append(sent, Request("rth", "DUMP", nh_dump_filter(filter), 0, TRUE))
             /\ stream' = noise \o KernelDump(table, nh_dump_filter(filter))
             /\ rth' = "dump"
             /\ pc' = "flush_dump"
             /\ UNCHANGED out
        ELSE /\ out' = Append(out, Line("Cannot send dump request", 0))
             /\ pc' = flush_on_error
             /\ UNCHANGED <<sent, stream, rth>>
    /\ UNCHANGED parseVars
    /\ UNCHANGED <<filter, rth_del, table, noise, action, all, nhid, rc,
                   printed, cbret, argv, succ, faulted, table0, cmds>>

\* rtnl_dump_filter hands the next message to flush_nexthop, which deletes
\* the nexthop through delete_nexthop; a negative return ends the dump
flush_nexthop ==
    /\ pc = "flush_dump"
    /\ stream # <<>>
    /\ LET m == Head(stream)
           r == flush_nexthop_cb(filter, m)
       IN  IF r.ret < 0
           THEN /\ cbret' = Append(cbret, Call(r.ret, m, 0, FALSE))
                /\ out' = Append(Append(out, Line("BUG: wrong nlmsg len", 0)),
                                 Line("Dump terminated. Failed to flush nexthops", 0))
                /\ stream' = <<>>
                /\ rth' = "idle"
                /\ pc' = flush_on_error
                /\ UNCHANGED <<filter, table, sent, succ, faulted>>
           ELSE /\ stream' = Tail(stream)
                /\ UNCHANGED <<out, rth, pc>>
                /\ IF r.del = 0
                   THEN /\ cbret' = Append(cbret, Call(r.ret, m, 0, FALSE))
                        /\ UNCHANGED <<filter, table, sent, succ, faulted>>
                   ELSE \E fault \in BOOLEAN :
                         LET ok == CanDelete(table, r.del) /\ ~fault IN
                         /\ cbret' = Append(cbret, Call(r.ret, m, r.del, ok))
                         /\ sent' = Append(sent, Request(delete_nexthop_handle,
                                           "RTM_DELNEXTHOP", {<<"NHA_ID", r.del>>}, r.del, ok))
                         /\ table' = (IF ok THEN AfterDelete(table, r.del) ELSE table)
                         /\ filter' = flush_count(filter, r.del, ok)
                         /\ succ' = (IF ok THEN succ + 1 ELSE succ)
                         /\ faulted' = (faulted \/ (fault /\ CanDelete(table, r.del)))
    /\ UNCHANGED parseVars
    /\ UNCHANGED <<rth_del, noise, action, all, nhid, rc, printed, argv,
                   table0, cmds>>

\* mutant: the second pass is started for any groups-only dump
flush_goto_again_any(a, f) == f.groups # 0

\* "if (all && filter.groups)": a flush-all goes round again after its
\* groups-only pass
flush_goto_again(a, f) == a /\ f.groups # 0

\* rtnl_dump_filter returned 0: "if (all && filter.groups) goto again"
flush_dump_end ==
    /\ pc = "flush_dump"
    /\ stream = <<>>
    /\ rth' = "idle"
    /\ IF flush_goto_again(all, filter)
       THEN /\ filter' = [filter EXCEPT !.groups = 0]
            /\ pc' = "flush_again"
            /\ UNCHANGED rc
       ELSE /\ rc' = 0
            /\ pc' = "flush_out"
            /\ UNCHANGED filter
    /\ UNCHANGED parseVars
    /\ UNCHANGED <<rth_del, table, stream, noise, action, all, nhid, out,
                   printed, sent, cbret, argv, succ, faulted, table0, cmds>>

\* rtnl_dump_filter failed on the socket or on an error message of the kernel
flush_dump_error ==
    /\ pc = "flush_dump"
    /\ rth' = "idle"
    /\ stream' = <<>>
    /\ out' = Append(out, Line("Dump terminated. Failed to flush nexthops", 0))
    /\ pc' = flush_on_error
    /\ UNCHANGED parseVars
    /\ UNCHANGED <<filter, rth_del, table, noise, action, all, nhid, rc,
                   printed, sent, cbret, argv, succ, faulted, table0, cmds>>

\* out: rtnl_close(&rth_del), the report, return rc
flush_out ==
    /\ pc = "flush_out"
    /\ rth_del' = FALSE
    /\ out' = Append(out, IF filter.flushed = 0
                          THEN Line("Nothing to flush", 0)
                          ELSE Line("Flushed nexthops", filter.flushed))
    /\ pc' = "done"
    /\ UNCHANGED parseVars
    /\ UNCHANGED <<filter, rth, table, stream, noise, action, all, nhid, rc,
                   printed, sent, cbret, argv, succ, faulted, table0, cmds>>

\* ------------------------------------------------- ipnh_list_flush, list
\* rtnl_nexthopdump_req(&rth, preferred_family, nh_dump_filter)
list_dump_req ==
    /\ pc = "list_req"
    /\ \E ok \in BOOLEAN :
        IF ok
        THEN /\ sent' = Append(sent, Request("rth", "DUMP", nh_dump_filter(filter), 0, TRUE))
             /\ stream' = noise \o KernelDump(table, nh_dump_filter(filter))
             /\ rth' = "dump"
             /\ pc' = "list_dump"
             /\ UNCHANGED <<out, rc>>
        ELSE /\ out' = Append(out, Line("Cannot send dump request", 0))
             /\ rc' = -2
             /\ pc' = "done"
             /\ UNCHANGED <<sent, stream, rth>>
    /\ UNCHANGED parseVars
    /\ UNCHANGED <<filter, rth_del, table, noise, action, all, nhid, printed,
                   cbret, argv, succ, faulted, table0, cmds>>

\* rtnl_dump_filter hands the next message to print_nexthop
print_nexthop ==
    /\ pc = "list_dump"
    /\ stream # <<>>
    /\ LET r == print_nexthop_cb(filter, Head(stream)) IN
        /\ cbret' = Append(cbret, Call(r.ret, Head(stream), 0, FALSE))
        /\ IF r.ret < 0
           THEN /\ out' = Append(out, Line("Dump terminated", 0))
                /\ stream' = <<>>
                /\ rth' = "idle"
                /\ rc' = -2
                /\ pc' = "done"
                /\ UNCHANGED printed
           ELSE /\ stream' = Tail(stream)
                /\ printed' = printed \o SeqById(r.recs)
                /\ UNCHANGED <<out, rth, rc, pc>>
    /\ UNCHANGED parseVars
    /\ UNCHANGED <<filter, rth_del, table, noise, action, all, nhid, sent,
                   argv, succ, faulted, table0, cmds>>

list_dump_end ==
    /\ pc = "list_dump"
    /\ stream = <<>>
    /\ rth' = "idle"
    /\ rc' = 0
    /\ pc' = "done"
    /\ UNCHANGED parseVars
    /\ UNCHANGED <<filter, rth_del, table, stream, noise, action, all, nhid,
                   out, printed, sent, cbret, argv, succ, faulted, table0, cmds>>

list_dump_error ==
    /\ pc = "list_dump"
    /\ rth' = "idle"
    /\ stream' = <<>>
    /\ out' = Append(out, Line("Dump terminated", 0))
    /\ rc' = -2
    /\ pc' = "done"
    /\ UNCHANGED parseVars
    /\ UNCHANGED <<filter, rth_del, table, noise, action, all, nhid, printed,
                   sent, cbret, argv, succ, faulted, table0, cmds>>

\* ------------------------------------------------------ ipnh_bucket_list
\* rtnl_nexthop_bucket_dump_req(&rth, preferred_family, nh_dump_bucket_filter)
bucket_dump_req ==
    /\ pc = "bucket_req"
    /\ \E ok \in BOOLEAN :
        IF ok
        THEN /\ sent' = Append(sent, Request("rth", "DUMP", nh_dump_bucket_filter(filter), 0, TRUE))
             /\ stream' = noise \o KernelBucketDump(table, nh_dump_bucket_filter(filter))
             /\ rth' = "dump"
             /\ pc' = "bucket_dump"
             /\ UNCHANGED <<out, rc>>
        ELSE /\ out' = Append(out, Line("Cannot send dump request", 0))
             /\ rc' = -2
             /\ pc' = "done"
             /\ UNCHANGED <<sent, stream, rth>>
    /\ UNCHANGED parseVars
    /\ UNCHANGED <<filter, rth_del, table, noise, action, all, nhid, printed,
                   cbret, argv, succ, faulted, table0, cmds>>

\* rtnl_dump_filter hands the next message to print_nexthop_bucket
print_nexthop_bucket ==
    /\ pc = "bucket_dump"
    /\ stream # <<>>
    /\ LET r == print_nexthop_bucket_cb(Head(stream)) IN
        /\ cbret' = Append(cbret, Call(r.ret, Head(stream), 0, FALSE))
        /\ IF r.ret < 0
           THEN /\ out' = Append(out, Line("Dump terminated", 0))
                /\ stream' = <<>>
                /\ rth' = "idle"
                /\ rc' = -2
                /\ pc' = "done"
                /\ UNCHANGED printed
           ELSE /\ stream' = Tail(stream)
                /\ printed' = printed \o SeqById(r.recs)
                /\ UNCHANGED <<out, rth, rc, pc>>
    /\ UNCHANGED parseVars
    /\ UNCHANGED <<filter, rth_del, table, noise, action, all, nhid, sent,
                   argv, succ, faulted, table0, cmds>>

bucket_dump_end ==
    /\ pc = "bucket_dump"
    /\ stream = <<>>
    /\ rth' = "idle"
    /\ rc' = 0
    /\ pc' = "done"
    /\ UNCHANGED parseVars
    /\ UNCHANGED <<filter, rth_del, table, stream, noise, action, all, nhid,
                   out, printed, sent, cbret, argv, succ, faulted, table0, cmds>>

bucket_dump_error ==
    /\ pc = "bucket_dump"
    /\ rth' = "idle"
    /\ stream' = <<>>
    /\ out' = Append(out, Line("Dump terminated", 0))
    /\ rc' = -2
    /\ pc' = "done"
    /\ UNCHANGED parseVars
    /\ UNCHANGED <<filter, rth_del, table, noise, action, all, nhid, printed,
                   sent, cbret, argv, succ, faulted, table0, cmds>>

\* ---------------------------------------------------- ipnh_list_flush_id
\* flush id ID: rtnl_open(&rth_del, 0)
flush_id_open ==
    /\ pc = "flushid_open"
    /\ \E ok \in BOOLEAN :
        IF ok
        THEN /\ rth_del' = TRUE
             /\ pc' = "flushid_del"
             /\ UNCHANGED <<rc, out>>
        ELSE /\ out' = Append(out, Line("Cannot open rtnetlink", 0))
             /\ rc' = 1
             /\ pc' = "done"
             /\ UNCHANGED rth_del
    /\ UNCHANGED parseVars
    /\ UNCHANGED <<filter, rth, table, stream, noise, action, all, nhid,
                   printed, sent, cbret, argv, succ, faulted, table0, cmds>>

\* err = delete_nexthop(id); rtnl_close(&rth_del); return err
flush_id_delete ==
    /\ pc = "flushid_del"
    /\ \E fault \in BOOLEAN :
        LET ok == CanDelete(table, nhid) /\ ~fault IN
        /\ sent' = Append(sent, Request(delete_nexthop_handle, "RTM_DELNEXTHOP",
                                        {<<"NHA_ID", nhid>>}, nhid, ok))
        /\ table' = (IF ok THEN AfterDelete(table, nhid) ELSE table)
        /\ succ' = (IF ok THEN succ + 1 ELSE succ)
        /\ faulted' = (faulted \/ (fault /\ CanDelete(table, nhid)))
        /\ rc' = (IF ok THEN 0 ELSE -1)
    /\ rth_del' = FALSE
    /\ pc' = "done"
    /\ UNCHANGED parseVars
    /\ UNCHANGED <<filter, rth, stream, noise, action, all, nhid, out,
                   printed, cbret, argv, table0, cmds>>

\* list id ID: ipnh_get_id, one request and one answer on rth
ipnh_get_id ==
    /\ pc = "get_talk"
    /\ \E ok \in BOOLEAN :
        IF ~ok
        THEN /\ sent' = Append(sent, Request("rth", "RTM_GETNEXTHOP", {<<"NHA_ID", nhid>>}, nhid, FALSE))
             /\ rc' = -2
             /\ UNCHANGED <<printed, cbret>>
        ELSE \E ans \in { NhMsg(nh) : nh \in { n \in table : n.id = nhid } }
                        \cup { noise[i] : i \in 1..Len(noise) } :
             LET r == print_nexthop_cb(filter, ans) IN
             /\ sent' = Append(sent, Request("rth", "RTM_GETNEXTHOP", {<<"NHA_ID", nhid>>}, nhid, TRUE))
             /\ cbret' = Append(cbret, Call(r.ret, ans, 0, FALSE))
             /\ printed' = printed \o SeqById(r.recs)
             /\ rc' = (IF r.ret < 0 THEN -1 ELSE 0)
    /\ pc' = "done"
    /\ UNCHANGED parseVars
    /\ UNCHANGED <<filter, rth_del, rth, table, stream, noise, action, all,
                   nhid, out, argv, succ, faulted, table0, cmds>>

\* ------------------------------------------------------- specifications
ArgLists == SeqsUpTo(ListFlushClauses, MaxArgs)
BucketArgLists == SeqsUpTo(BucketClauses, MaxArgs)

\* do_ipnh's dispatch of list, flush and bucket list
do_ipnh ==
    \/ \E args \in ArgLists, act \in {"IPNH_LIST", "IPNH_FLUSH"} :
          ipnh_list_flush(args, act)
    \/ \E args \in BucketArgLists : ipnh_bucket_list(args)

Step ==
    \/ flush_open \/ flush_dump_req \/ flush_nexthop \/ flush_dump_end
    \/ flush_dump_error \/ flush_out
    \/ list_dump_req \/ print_nexthop \/ list_dump_end \/ list_dump_error
    \/ bucket_dump_req \/ print_nexthop_bucket \/ bucket_dump_end
    \/ bucket_dump_error
    \/ flush_id_open \/ flush_id_delete \/ ipnh_get_id

Next == do_ipnh \/ Step

\* one ip nexthop command run in a fresh process
Spec == Init /\ [][Next]_vars

\* ip -batch: do_ipnh has returned and the next line of the batch file is
\* dispatched in the same process; the statics (filter, rth_del) are kept
batch_next ==
    /\ pc = "done"
    /\ cmds < MaxCmds
    /\ pc' = "idle"
    /\ rc' = 0
    /\ out' = <<>>
    /\ printed' = <<>>
    /\ sent' = <<>>
    /\ cbret' = <<>>
    /\ succ' = 0
    /\ faulted' = FALSE
    /\ table0' = table
    /\ UNCHANGED parseVars
    /\ UNCHANGED <<filter, rth_del, rth, table, stream, noise, action, all,
                   nhid, argv, cmds>>

NextBatch == do_ipnh \/ Step \/ batch_next

\* the commands of one batch file, run in one process
SpecBatch == Init /\ [][NextBatch]_vars

\* ------------------------------------------------------------- properties
Deletes == { i \in 1..Len(sent) : sent[i].type = "RTM_DELNEXTHOP" }
GroupsPass(i) == HasAttr(sent[i].of_dump, "NHA_GROUPS")
FlushAll == action = "IPNH_FLUSH" /\ all /\ cmds > 0
\* the flush that dumps (not flush id ID)
DumpFlush == action = "IPNH_FLUSH" /\ cmds > 0 /\ list_flush_args(ZeroFilter, argv).stop = "end"
Failed(lines) ==
    \E i \in 1..Len(lines) :
        lines[i].msg \in {"Cannot open rtnetlink", "Cannot send dump request",
                          "Dump terminated. Failed to flush nexthops"}

\* C1: in a flush-all the first dump is the groups-only one and every delete
\* for a record of the groups-only pass is sent before any delete for a
\* record of the unconstrained pass; on {1 = group of 2, 2 = plain}, with no
\* failure other than the kernel's refusals, nexthop 1 is deleted in the
\* groups-only pass before the delete of nexthop 2 is attempted, and the
\* flush reports 2.
C1_GroupsFirst ==
    FlushAll =>
        /\ \A i \in 1..Len(sent) :
              (sent[i].type = "DUMP" /\ \A j \in 1..(i - 1) : sent[j].type # "DUMP")
                  => HasAttr(sent[i].req, "NHA_GROUPS")
        /\ \A i, j \in Deletes :
              (GroupsPass(i) /\ ~GroupsPass(j)) => i < j
        /\ (table0 = TableC1 /\ noise = <<>> /\ ~faulted) =>
              /\ \A j \in Deletes :
                    sent[j].id = 2 =>
                        \E i \in Deletes :
                            i < j /\ sent[i].id = 1 /\ sent[i].ok /\ GroupsPass(i)
              /\ (pc = "done" /\ rc = 0) =>
                    out[Len(out)] = Line("Flushed nexthops", 2)

C1_Witness ==
    /\ FlushAll /\ table0 = TableC1 /\ noise = <<>> /\ ~faulted
    /\ pc = "done" /\ rc = 0 /\ table = {}
    /\ Len(sent) = 4
    /\ sent[2].id = 1 /\ sent[2].ok /\ sent[4].id = 2 /\ sent[4].ok
    /\ out = << Line("Flushed nexthops", 2) >>

\* C2: every delete issued from the dump's callback goes out on rth_del,
\* which is open then and is not the handle the dump is streamed on, and
\* nothing is sent on rth while its dump is being consumed.
C2_DeleteHandle ==
    \A i \in 1..Len(sent) :
        sent[i].dumping =>
            /\ sent[i].conn # "rth"
            /\ sent[i].type = "RTM_DELNEXTHOP"
            /\ sent[i].conn = "rth_del"
            /\ sent[i].del_open

C2_Witness ==
    /\ pc = "flush_dump" /\ rth = "dump" /\ rth_del
    /\ \E i \in Deletes : sent[i].dumping /\ sent[i].ok /\ sent[i].conn = "rth_del"

\* C3: the delete handle is open only inside ipnh_flush and the flush-by-id
\* path, between their rtnl_open and their return: once the command has
\* returned, whatever the exit path, rth_del is closed.
C3_DeleteHandleClosed ==
    /\ rth_del => pc \in {"flush_again", "flush_dump", "flush_out", "flushid_del"}
    /\ pc \in {"done", "exit", "idle"} => ~rth_del

\* a flush that returned after its dump was cut short, with deletes done
C3_Witness ==
    /\ pc = "done" /\ DumpFlush /\ rc = -2 /\ ~rth_del
    /\ \E i \in Deletes : sent[i].ok /\ sent[i].del_open
    /\ out[Len(out) - 1].msg = "Dump terminated. Failed to flush nexthops"

\* C4: a delete that fails does not end the dump (the callback returns 0),
\* and filter.flushed is the number of deletes of this flush that succeeded:
\* nothing is counted for a failed delete, a record without id or with id 0,
\* or a record dropped by the protocol filter.
C4_CountsSuccesses ==
    DumpFlush =>
        /\ \A k \in 1..Len(cbret) :
              (cbret[k].del # 0 /\ ~cbret[k].ok) => cbret[k].ret = 0
        /\ filter.flushed = Cardinality({ i \in Deletes : sent[i].ok })
        /\ filter.flushed = Cardinality({ k \in 1..Len(cbret) : cbret[k].del # 0 /\ cbret[k].ok })
        /\ filter.flushed = succ

\* a failed delete, then a record of the same dump deleted and counted
C4_Witness ==
    /\ DumpFlush /\ pc = "flush_dump" /\ filter.flushed = 1
    /\ \E k \in 1..Len(cbret) :
          /\ cbret[k].del # 0 /\ ~cbret[k].ok /\ cbret[k].ret = 0
          /\ \E l \in (k + 1)..Len(cbret) :
                /\ cbret[l].ok
                /\ \A d \in Deletes : ~GroupsPass(d)

\* C5: a flush that has returned reports the number of nexthops it deleted,
\* and returns 0 exactly when neither the opening of rth_del, nor the dump
\* request, nor the dump failed: "nothing deleted" (status 0) differs from
\* every transport failure (status non-zero).
C5_Outcome ==
    (DumpFlush /\ pc = "done") =>
        /\ (rc = 0) <=> ~Failed(out)
        /\ Failed(out) => rc \in {1, -2}
        /\ out[Len(out)].msg # "Cannot open rtnetlink" =>
              out[Len(out)] = (IF succ = 0 THEN Line("Nothing to flush", 0)
                               ELSE Line("Flushed nexthops", succ))

\* both outcomes happen: see C5_Witness for the failure with nothing deleted
C5_Witness ==
    /\ DumpFlush /\ pc = "done" /\ succ = 0 /\ rc = -2
    /\ out[Len(out)] = Line("Nothing to flush", 0)
    /\ table # {}

\* C6: the dump request carries the device, groups, master and fdb
\* predicates that are set and nothing else (never the protocol); with a
\* protocol filter set, the flush sends no delete for a record of another
\* protocol and the list prints none.
C6_ProtocolClientSide ==
    /\ \A i \in 1..Len(sent) :
          (sent[i].type = "DUMP" /\ action # "BUCKET") =>
              { a[1] : a \in sent[i].req } \subseteq {"NHA_OIF", "NHA_GROUPS", "NHA_MASTER", "NHA_FDB"}
    /\ pc \in {"flush_dump", "list_dump"} =>
          LET req == LastDump(sent) IN
          /\ HasAttr(req, "NHA_OIF") <=> filter.ifindex # 0
          /\ HasAttr(req, "NHA_GROUPS") <=> filter.groups # 0
          /\ HasAttr(req, "NHA_MASTER") <=> filter.master # 0
          /\ HasAttr(req, "NHA_FDB") <=> filter.fdb # 0
          /\ HasAttr(req, "NHA_OIF") => AttrVal(req, "NHA_OIF") = filter.ifindex
          /\ HasAttr(req, "NHA_MASTER") => AttrVal(req, "NHA_MASTER") = filter.master
    /\ filter.proto # 0 =>
          /\ \A k \in 1..Len(cbret) :
                cbret[k].proto # filter.proto => (cbret[k].del = 0 /\ ~cbret[k].ok)
          /\ \A k \in 1..Len(printed) :
                action = "IPNH_LIST" => printed[k].proto = filter.proto
          /\ DumpFlush =>
                filter.flushed <= Cardinality({ k \in 1..Len(cbret) : cbret[k].proto = filter.proto })

\* flush protocol 3 on the mixed table: the dump returned the records of
\* protocol 4 too, and only the one of protocol 3 was deleted
C6_Witness ==
    /\ DumpFlush /\ filter.proto = 3 /\ pc = "done" /\ rc = 0
    /\ table0 = TableMixed /\ noise = <<>>
    /\ Len(cbret) = 3 /\ filter.flushed = 1
    /\ \E k \in 1..3 : cbret[k].proto = 4 /\ cbret[k].del = 0
    /\ Cardinality(table) = 2 /\ \A n \in table : n.proto = 4

\* the filter a command's own selector clauses build from a zeroed one
OwnFilter ==
    IF action = "BUCKET"
    THEN bucket_list_args(ZeroFilter, argv).filter
    ELSE flush_all_filter(list_flush_args(ZeroFilter, argv).filter,
                          action = "IPNH_FLUSH" /\ argv = <<>>)

\* C10: the filter a list / flush / bucket list command works with is the
\* one its own selector clauses build, whatever commands ran before it in
\* the process, and the count a flush reports is the number of nexthops
\* that flush deleted.
C10_FreshPerCall ==
    /\ (cmds > 0 /\ pc \in {"flush_open", "list_req", "bucket_req", "get_talk", "flushid_open"})
          => [filter EXCEPT !.flushed = 0] = OwnFilter
    /\ (DumpFlush /\ pc = "done" /\ out[Len(out)].msg \in {"Nothing to flush", "Flushed nexthops"})
          => out[Len(out)] = (IF succ = 0 THEN Line("Nothing to flush", 0)
                              ELSE Line("Flushed nexthops", succ))

\* ------------------------------------------------------------- numbers
\* unsigned values wider than TLC's integers are kept as 16-bit
\* limbs, least significant first: a __u32 is <<low, high>>
Limb == 256 * 256

Zero32 == <<0, 0>>

IsZero(x) == \A i \in 1..Len(x) : x[i] = 0

\* x * m + c, limb by limb; the last element of the result is the carry out
RECURSIVE MulAdd(_, _, _)
MulAdd(x, m, c) ==
    IF x = <<>> THEN <<c>>
    ELSE LET t == Head(x) * m + c
         IN  <<t % Limb>> \o MulAdd(Tail(x), m, t \div Limb)

\* quotient and remainder of x by the small number d
RECURSIVE DivSmall(_, _)
DivSmall(x, d) ==
    IF x = <<>> THEN [q |-> <<>>, r |-> 0]
    ELSE LET h == DivSmall(Tail(x), d)
             t == h.r * Limb + Head(x)
         IN  [q |-> <<t \div d>> \o h.q, r |-> t % d]

\* -1, 0 or 1 as x is less than, equal to or greater than y (same length)
RECURSIVE Cmp(_, _)
Cmp(x, y) ==
    IF x = <<>> THEN 0
    ELSE LET c == Cmp(Tail(x), Tail(y))
         IN  IF c # 0 THEN c
             ELSE IF Head(x) < Head(y) THEN -1
             ELSE IF Head(x) > Head(y) THEN 1 ELSE 0

Widen(x, n) == x \o [i \in 1..(n - Len(x)) |-> 0]

AllOnes(n) == [i \in 1..n |-> Limb - 1]

\* printf("%u"): the decimal digits of x
RECURSIVE DigitsOf(_)
DigitsOf(x) ==
    IF IsZero(x) THEN <<>>
    ELSE LET dm == DivSmall(x, 10) IN DigitsOf(dm.q) \o <<dm.r>>

Decimal(x) == IF IsZero(x) THEN <<0>> ELSE DigitsOf(x)

\* --------------------------------------------------------------- tokens
\* the text of an argument, cut into runs of digits and other characters
Word(w) == [word |-> w, digits |-> <<>>]
Number(ds) == [word |-> "", digits |-> ds]

\* strtoul over a run of digits, failing once the value passes UINT_MAX
RECURSIVE strtoul32(_, _)
strtoul32(acc, ds) ==
    IF ds = <<>> THEN [ok |-> TRUE, val |-> acc]
    ELSE LET r == MulAdd(acc, 10, Head(ds))
         IN  IF r[3] # 0 THEN [ok |-> FALSE, val |-> Zero32]
             ELSE strtoul32(SubSeq(r, 1, 2), Tail(ds))

\* get_unsigned: the text must be one run of digits that fits an unsigned
get_unsigned(text) ==
    IF Len(text) # 1 \/ text[1].digits = <<>>
    THEN [ok |-> FALSE, val |-> Zero32]
    ELSE strtoul32(Zero32, text[1].digits)

\* strchr: the place of the first w in text, 0 when there is none
IndexOf(text, w) ==
    LET I == { i \in 1..Len(text) : text[i].word = w }
    IN  IF I = {} THEN 0 ELSE CHOOSE i \in I : \A j \in I : i <= j

\* ---------------------------------------------------- add_nh_group_attr
\* mutant: no upper limit on the weight
weight_invalid_no_limit(wv) ==
    ~wv.ok \/ IsZero(wv.val)

\* "get_unsigned(&w, wsep, 0) || w == 0 || w > 256"
weight_invalid(wv) ==
    ~wv.ok \/ IsZero(wv.val) \/ wv.val[2] # 0 \/ wv.val[1] > 256

\* the loop over the count segments of argv; grps[i].weight is a __u8
RECURSIVE group_loop(_, _, _, _)
group_loop(text, i, count, grps) ==
    IF i >= count THEN [err |-> 0, invarg |-> FALSE, grps |-> grps]
    ELSE LET sep == IndexOf(text, "/")
             seg == IF sep = 0 THEN text ELSE SubSeq(text, 1, sep - 1)
             wsep == IndexOf(seg, ",")
             idv == get_unsigned(IF wsep = 0 THEN seg ELSE SubSeq(seg, 1, wsep - 1))
             wv == get_unsigned(SubSeq(seg, wsep + 1, Len(seg)))
         IN  IF ~idv.ok THEN [err |-> -1, invarg |-> FALSE, grps |-> <<>>]
             ELSE IF wsep # 0 /\ weight_invalid(wv)
             THEN [err |-> -1, invarg |-> TRUE, grps |-> <<>>]
             ELSE LET g == [id |-> idv.val,
                            weight |-> IF wsep = 0 THEN 0
                                       ELSE (wv.val[1] - 1) % 256]
                  IN  IF sep = 0
                      THEN [err |-> 0, invarg |-> FALSE, grps |-> Append(grps, g)]
                      ELSE group_loop(SubSeq(text, sep + 1, Len(text)), i + 1,
                                      count, Append(grps, g))

\* add_nh_group_attr: err, whether invarg ended the process, and the
\* nexthop_grp array put into NHA_GROUP
add_nh_group_attr(text) ==
    LET count == (IF text # <<>> THEN 1 ELSE 0)
                 + Cardinality({ i \in 1..Len(text) : text[i].word = "/" })
    IN  IF count = 0 THEN [err |-> -1, invarg |-> FALSE, grps |-> <<>>]
        ELSE group_loop(text, 0, count, <<>>)

\* print_nh_group: the objects of the "group" array, each with its id and,
\* for a non-zero wire weight, its weight (<<>>: no weight printed)
print_nh_group(grps) ==
    IF Len(grps) = 0 THEN << [invalid |-> TRUE, id |-> <<>>, weight |-> <<>>] >>
    ELSE [i \in 1..Len(grps) |->
            [invalid |-> FALSE,
             id |-> Decimal(grps[i].id),
             weight |-> IF grps[i].weight # 0
                        THEN Decimal(<<grps[i].weight + 1, 0>>) ELSE <<>>]]

\* no list / flush command is running
FlushIdle ==
    /\ pc = "none"
    /\ filter = ZeroFilter
    /\ rth_del = FALSE
    /\ rth = "idle"
    /\ table = {}
    /\ stream = <<>>
    /\ noise = <<>>
    /\ action = "IPNH_LIST"
    /\ all = FALSE
    /\ nhid = 0
    /\ rc = 0
    /\ out = <<>>
    /\ printed = <<>>
    /\ sent = <<>>
    /\ cbret = <<>>
    /\ argv = <<>>
    /\ succ = 0
    /\ faulted = FALSE
    /\ table0 = {}
    /\ cmds = 0

\* ------------------------------------------------ group member lists
\* members of a list
MaxSegs == 3

NoWeight == <<>>
MemberIds == { <<5>>, <<7>>, <<9>> }
MemberWeights == { NoWeight, <<0>>, <<1>>, <<2>>, <<1, 0>>, <<2, 5, 6>>, <<2, 5, 7>> }
Members == [id : MemberIds, weight : MemberWeights]

\* the text "id[,weight]/id[,weight]/..." of a member list
RECURSIVE TextOf(_)
TextOf(ms) ==
    IF ms = <<>> THEN <<>>
    ELSE LET m == Head(ms)
             one == <<Number(m.id)>> \o
                    (IF m.weight = NoWeight THEN <<>> ELSE <<Word(","), Number(m.weight)>>)
         IN  IF Len(ms) = 1 THEN one ELSE one \o <<Word("/")>> \o TextOf(Tail(ms))

\* texts that are no member list
Malformed ==
    { <<>>, <<Word("/")>>, <<Number(<<5>>), Word("/")>>, <<Word("/"), Number(<<5>>)>>,
      <<Number(<<5>>), Word(",")>>, <<Word(","), Number(<<2>>)>>,
      <<Number(<<5>>), Word(","), Number(<<2>>), Word(","), Number(<<3>>)>>,
      <<Word("x")>>, <<Number(<<5>>), Word("x")>>,
      <<Number(<<4, 2, 9, 4, 9, 6, 7, 2, 9, 6>>)>>,
      <<Number(<<5>>), Word(","), Number(<<4, 2, 9, 4, 9, 6, 7, 2, 9, 6>>)>> }

GroupInputs ==
    { [text |-> TextOf(ms), members |-> ms, wf |-> TRUE]
        : ms \in SeqsUpTo(Members, MaxSegs) \ { <<>> } }
    \cup { [text |-> t, members |-> <<>>, wf |-> FALSE] : t \in Malformed }

InitGroup ==
    /\ FlushIdle
    /\ ulong_bits = 64
    /\ preferred_family = "AF_UNSPEC"
    /\ p_pc = "group"
    /\ p_argv \in GroupInputs
    /\ p_req = <<>>
    /\ p_out = <<>>

\* ipnh_modify's "group" clause: add_nh_group_attr, invarg on failure
modify_group ==
    /\ p_pc = "group"
    /\ LET r == add_nh_group_attr(p_argv.text) IN
        IF r.err # 0
        THEN /\ p_pc' = "group_exit"
             /\ p_out' = << IF r.invarg THEN "\"weight\" is invalid"
                            ELSE "\"group\" value is invalid" >>
             /\ UNCHANGED p_req
        ELSE /\ p_pc' = "group_built"
             /\ p_req' = r.grps
             /\ UNCHANGED p_out
    /\ UNCHANGED <<ulong_bits, preferred_family, p_argv>>
    /\ UNCHANGED flushVars

\* the kernel returns the group as it was given; print_nexthop prints it
show_group ==
    /\ p_pc = "group_built"
    /\ p_out' = print_nh_group(p_req)
    /\ p_pc' = "group_printed"
    /\ UNCHANGED <<ulong_bits, preferred_family, p_argv, p_req>>
    /\ UNCHANGED flushVars

NextGroup == modify_group \/ show_group

\* a group member list parsed, encoded and printed back
SpecGroup == InitGroup /\ [][NextGroup]_vars

\* the weight a printed member stands for: the one printed, 1 when none is
ShownWeight(o) == IF o.weight = <<>> THEN <<1>> ELSE o.weight
GivenWeight(m) == IF m.weight = NoWeight THEN <<1>> ELSE m.weight
\* the value of a weight given in the input (0 .. 257)
WeightValue(ds) == get_unsigned(<<Number(ds)>>).val[1]

\* C7: a member list with a weight of 0 or above 256 is rejected; any other
\* is encoded member by member in the order given, with wire weight =
\* weight - 1 in 0..255 (0 for a missing weight), and printing the encoded
\* group gives back the same ids with the same weights (wire + 1) in the
\* same order.
C7_GroupRoundTrip ==
    (p_pc \in {"group_exit", "group_built", "group_printed"} /\ p_argv.wf) =>
        LET ms == p_argv.members IN
        /\ (p_pc = "group_exit") <=>
              \E i \in 1..Len(ms) :
                  ms[i].weight # NoWeight /\ WeightValue(ms[i].weight) \notin 1..256
        /\ p_pc # "group_exit" =>
              /\ Len(p_req) = Len(ms)
              /\ \A i \in 1..Len(ms) :
                    /\ Decimal(p_req[i].id) = ms[i].id
                    /\ p_req[i].weight \in 0..255
                    /\ p_req[i].weight = (IF ms[i].weight = NoWeight THEN 0
                                          ELSE WeightValue(ms[i].weight) - 1)
        /\ p_pc = "group_printed" =>
              /\ Len(p_out) = Len(ms)
              /\ \A i \in 1..Len(ms) :
                    /\ ~p_out[i].invalid
                    /\ p_out[i].id = ms[i].id
                    /\ ShownWeight(p_out[i]) = GivenWeight(ms[i])
                    /\ ShownWeight(p_out[i]) = Decimal(<<p_req[i].weight + 1, 0>>)

\* "5,2/7/9,10" encoded as (5,1) (7,0) (9,9) and printed as 5,2/7/9,10
C7_Witness ==
    /\ p_pc = "group_printed"
    /\ p_argv.text = << Number(<<5>>), Word(","), Number(<<2>>), Word("/"),
                        Number(<<7>>), Word("/"),
                        Number(<<9>>), Word(","), Number(<<1, 0>>) >>
    /\ p_req = << [id |-> <<5, 0>>, weight |-> 1], [id |-> <<7, 0>>, weight |-> 0],
                  [id |-> <<9, 0>>, weight |-> 9] >>
    /\ p_out = << [invalid |-> FALSE, id |-> <<5>>, weight |-> <<2>>],
                  [invalid |-> FALSE, id |-> <<7>>, weight |-> <<>>],
                  [invalid |-> FALSE, id |-> <<9>>, weight |-> <<1, 0>>] >>

\* weight 256 goes out as 255 and comes back as 256
C7_Witness256 ==
    /\ p_pc = "group_printed"
    /\ \E i \in 1..Len(p_req) :
          /\ p_argv.members[i].weight = <<2, 5, 6>>
          /\ p_req[i].weight = 255
          /\ p_out[i].weight = <<2, 5, 6>>

\* ----------------------------------------------- parse_nh_group_type_res
\* get_u16: a run of digits that fits 16 bits
get_u16(text) ==
    LET r == get_unsigned(text)
    IN  IF r.ok /\ r.val[2] = 0 THEN r ELSE [ok |-> FALSE, val |-> Zero32]

\* "idle_timer >= ~0UL / 100": the __u32 is compared as an unsigned long of
\* bits bits
timer_too_big(bits, v) ==
    LET n == bits \div 16
    IN  Cmp(Widen(v, n), DivSmall(AllOnes(n), 100).q) >= 0

\* "idle_timer * 100" as a __u32: the product modulo 2^32
timer_ticks(v) == SubSeq(MulAdd(v, 100, 0), 1, 2)

ResAttr(t, raw, val) == [type |-> t, raw |-> raw, val |-> val]

\* the while loop: args[1] is *argv; the attributes added, the arguments
\* left from the first one it does not know, and the error that ended the
\* process ("": none)
RECURSIVE res_loop(_, _, _)
res_loop(bits, args, attrs) ==
    IF args = <<>> THEN [exit |-> "", attrs |-> attrs, rest |-> <<>>]
    ELSE IF Head(args).word \notin {"buckets", "idle_timer", "unbalanced_timer"}
    THEN [exit |-> "", attrs |-> attrs, rest |-> args]
    ELSE IF Len(args) < 2
    THEN [exit |-> "incomplete command", attrs |-> attrs, rest |-> <<>>]
    ELSE LET kw == Head(args).word
             arg == <<args[2]>>
             rest == SubSeq(args, 3, Len(args))
         IN  IF kw = "buckets"
             THEN IF ~get_u16(arg).ok
                  THEN [exit |-> "invalid buckets value", attrs |-> attrs, rest |-> rest]
                  ELSE res_loop(bits, rest,
                           Append(attrs, ResAttr("NHA_RES_GROUP_BUCKETS",
                                  get_u16(arg).val, get_u16(arg).val)))
             ELSE LET v == get_unsigned(arg)
                      t == IF kw = "idle_timer" THEN "NHA_RES_GROUP_IDLE_TIMER"
                           ELSE "NHA_RES_GROUP_UNBALANCED_TIMER"
                  IN  IF ~v.ok \/ timer_too_big(bits, v.val)
                      THEN [exit |-> "invalid timer value", attrs |-> attrs, rest |-> rest]
                      ELSE res_loop(bits, rest,
                               Append(attrs, ResAttr(t, v.val, timer_ticks(v.val))))

\* parse_nh_group_type_res, entered with *argv = "resilient" and args
\* following it: nothing is added when no argument follows
parse_nh_group_type_res(bits, args) ==
    IF args = <<>> THEN [exit |-> "", attrs |-> <<>>, rest |-> <<>>, nest |-> FALSE]
    ELSE res_loop(bits, args, <<>>) @@ [nest |-> TRUE]

\* arguments after "type resilient"
MaxTokens == 4

ResTokens ==
    { Word("buckets"), Word("idle_timer"), Word("unbalanced_timer"), Word("dev"),
      Number(<<5>>), Number(<<4, 2, 9, 4, 9, 6, 7, 1>>),
      Number(<<4, 2, 9, 4, 9, 6, 7, 2>>), Number(<<4, 2, 9, 4, 9, 6, 7, 3>>),
      Number(<<4, 2, 9, 4, 9, 6, 7, 2, 9, 5>>),
      Number(<<4, 2, 9, 4, 9, 6, 7, 2, 9, 6>>) }

InitRes ==
    /\ FlushIdle
    /\ ulong_bits \in {32, 64}
    /\ preferred_family = "AF_UNSPEC"
    /\ p_pc = "res"
    /\ p_argv \in SeqsUpTo(ResTokens, MaxTokens)
    /\ p_req = <<>>
    /\ p_out = <<>>

\* parse_nh_group_type's "resilient" case
modify_type_res ==
    /\ p_pc = "res"
    /\ LET r == parse_nh_group_type_res(ulong_bits, p_argv) IN
        /\ p_req' = r.attrs
        /\ p_argv' = r.rest
        /\ p_out' = (IF r.exit = "" THEN <<>> ELSE <<r.exit>>)
        /\ p_pc' = (IF r.exit = "" THEN "res_done" ELSE "res_exit")
    /\ UNCHANGED <<ulong_bits, preferred_family>>
    /\ UNCHANGED flushVars

NextRes == modify_type_res

\* the arguments of a resilient group parsed, in a 32-bit or a 64-bit build
SpecRes == InitRes /\ [][NextRes]_vars

Timers(attrs) ==
    { i \in 1..Len(attrs) :
        attrs[i].type \in {"NHA_RES_GROUP_IDLE_TIMER", "NHA_RES_GROUP_UNBALANCED_TIMER"} }

\* (2^32 - 1) / 100
TimerLimit == DivSmall(AllOnes(2), 100).q

\* C8: a timer value of (2^32-1)/100 or more is never emitted, and a value
\* that is emitted goes out as exactly value * 100, without wrap-around.
C8_TimerScaling ==
    p_pc \in {"res_done", "res_exit"} =>
        \A i \in Timers(p_req) :
            /\ Cmp(p_req[i].raw, TimerLimit) < 0
            /\ MulAdd(p_req[i].raw, 100, 0) = p_req[i].val \o <<0>>

\* where unsigned long is 32 bits wide the guard does what C8 says
TimerScaling32 == ulong_bits = 32 => C8_TimerScaling

\* the guard lets 42949673 through where unsigned long is 64 bits wide,
\* and 42949673 * 100 goes out as 4
TimerWraps ==
    /\ ulong_bits = 64
    /\ p_pc = "res_done"
    /\ \E i \in Timers(p_req) :
          /\ Decimal(p_req[i].raw) = <<4, 2, 9, 4, 9, 6, 7, 3>>
          /\ p_req[i].val = <<4, 0>>

\* ---------------------------------------------------------- ipnh_modify
\* clauses of one add / replace / delete command
MaxClauses == 3

\* a clause: via carries the family word in front of the address
\* ("AF_UNSPEC": none) and the family of the address as written
ModClause(k, v, fam, addr) == [kw |-> k, val |-> v, fam |-> fam, addr |-> addr]
Plain(k, v) == ModClause(k, v, "AF_UNSPEC", "AF_UNSPEC")

GroupOk == TextOf(<< [id |-> <<5>>, weight |-> <<2>>], [id |-> <<7>>, weight |-> NoWeight] >>)
GroupBad == TextOf(<< [id |-> <<5>>, weight |-> <<0>>] >>)

ModClauses ==
    { ModClause("via", "", f, a) : f \in {"AF_UNSPEC", "AF_INET", "AF_INET6"},
                                    a \in {"AF_INET", "AF_INET6"} }
    \cup { Plain("id", "5"), Plain("dev", "eth0"), Plain("dev", ""),
           Plain("blackhole", ""), Plain("unreachable", ""), Plain("prohibit", ""),
           Plain("fdb", ""), Plain("onlink", ""), Plain("encap", "mpls"),
           Plain("group", "ok"), Plain("group", "bad"),
           Plain("type", "mpath"), Plain("type", "resilient"), Plain("type", "bogus"),
           Plain("protocol", "static"), Plain("bogus", "") }

\* get_addr: the address as written, unless a family is asked for and the
\* address is of another one, which ends the process
get_addr(addr, family) ==
    IF family # "AF_UNSPEC" /\ family # addr
    THEN [ok |-> FALSE, family |-> addr]
    ELSE [ok |-> TRUE, family |-> addr]

\* mutant: the address of a later via replaces the family
via_family_overwrite(reqfam, addrfam) ==
    [family |-> addrfam, mismatch |-> FALSE]

\* "if (req.nhm.nh_family == AF_UNSPEC) req.nhm.nh_family = addr.family;
\*  else if (req.nhm.nh_family != addr.family) invarg(...)"
via_family(reqfam, addrfam) ==
    IF reqfam = "AF_UNSPEC" THEN [family |-> addrfam, mismatch |-> FALSE]
    ELSE [family |-> reqfam, mismatch |-> reqfam # addrfam]

\* "if (req.nhm.nh_family == AF_UNSPEC) req.nhm.nh_family = AF_INET"
default_family(reqfam) ==
    IF reqfam = "AF_UNSPEC" THEN "AF_INET" ELSE reqfam

Go(r) == [req |-> r, exit |-> ""]
Exit(r, why) == [req |-> r, exit |-> why]
AddAttr(r, t) == [r EXCEPT !.attrs = Append(@, t)]

\* one turn of ipnh_modify's while loop: the request after clause c, and
\* the error that ended the process ("": none)
modify_clause(bits, r, c) ==
    CASE c.kw = "id" -> Go(AddAttr(r, "NHA_ID"))
      [] c.kw = "dev" ->
            IF c.val = "" THEN Exit(r, "Device does not exist")
            ELSE Go([AddAttr(r, "NHA_OIF") EXCEPT !.family = default_family(r.family)])
      [] c.kw = "via" ->
            LET hint == IF c.fam = "AF_UNSPEC" THEN r.family ELSE c.fam
                a == get_addr(c.addr, hint)
                f == via_family(r.family, a.family)
            IN  IF ~a.ok THEN Exit(r, "address of another family is expected")
                ELSE IF f.mismatch THEN Exit(r, "address family mismatch")
                ELSE Go([AddAttr(r, "NHA_GATEWAY") EXCEPT !.family = f.family])
      [] c.kw = "encap" -> Go(AddAttr(AddAttr(r, "NHA_ENCAP_TYPE"), "NHA_ENCAP"))
      [] c.kw = "blackhole" ->
            Go([AddAttr(r, "NHA_BLACKHOLE") EXCEPT !.family = default_family(r.family)])
      [] c.kw = "unreachable" ->
            Go([AddAttr(r, "NHA_UNREACHABLE") EXCEPT !.family = default_family(r.family)])
      [] c.kw = "prohibit" ->
            Go([AddAttr(r, "NHA_PROHIBIT") EXCEPT !.family = default_family(r.family)])
      [] c.kw = "fdb" -> Go(AddAttr(r, "NHA_FDB"))
      [] c.kw = "onlink" -> Go([r EXCEPT !.nh_flags = @ \cup {"RTNH_F_ONLINK"}])
      [] c.kw = "group" ->
            IF add_nh_group_attr(IF c.val = "ok" THEN GroupOk ELSE GroupBad).err # 0
            THEN Exit(r, "\"group\" value is invalid")
            ELSE Go(AddAttr(r, "NHA_GROUP"))
      [] c.kw = "type" ->
            IF c.val \notin {"mpath", "resilient"}
            THEN Exit(r, "\"type\" value is invalid")
            ELSE IF c.val = "resilient"
                    /\ parse_nh_group_type_res(bits, <<Word("idle_timer"), Number(<<5>>)>>).exit # ""
            THEN Exit(r, "invalid timer value")
            ELSE Go(AddAttr(IF c.val = "resilient" THEN AddAttr(r, "NHA_RES_GROUP") ELSE r,
                            "NHA_GROUP_TYPE"))
      [] c.kw = "protocol" -> Go([r EXCEPT !.protocol = c.val])
      [] OTHER -> Exit(r, "invarg")

InitModify ==
    /\ FlushIdle
    /\ ulong_bits = 64
    /\ preferred_family \in {"AF_UNSPEC", "AF_INET", "AF_INET6"}
    /\ p_pc = "modify"
    /\ p_argv \in SeqsUpTo(ModClauses, MaxClauses)
    /\ p_req = [family |-> preferred_family, attrs |-> <<>>, nh_flags |-> {},
                flags |-> {}, protocol |-> "", next |-> 1,
                families |-> <<preferred_family>>]
    /\ p_out = <<>>

\* ipnh_modify, one clause: p_req.next is the clause *argv stands on and
\* p_req.families the value of req.nhm.nh_family after each clause so far
ipnh_modify_clause ==
    /\ p_pc = "modify"
    /\ p_req.next <= Len(p_argv)
    /\ LET r == modify_clause(ulong_bits, p_req, p_argv[p_req.next]) IN
        IF r.exit # ""
        THEN /\ p_pc' = "modify_exit"
             /\ p_out' = <<r.exit>>
             /\ UNCHANGED p_req
        ELSE /\ p_req' = [r.req EXCEPT !.next = @ + 1,
                                       !.families = Append(@, r.req.family)]
             /\ UNCHANGED <<p_pc, p_out>>
    /\ UNCHANGED <<ulong_bits, preferred_family, p_argv>>
    /\ UNCHANGED flushVars

\* "req.nhm.nh_flags = nh_flags; if (rtnl_talk(&rth, &req.n, NULL) < 0) return -2"
ipnh_modify_talk ==
    /\ p_pc = "modify"
    /\ p_req.next > Len(p_argv)
    /\ p_req' = [p_req EXCEPT !.flags = p_req.nh_flags]
    /\ \E ok \in BOOLEAN :
          /\ p_pc' = (IF ok THEN "modify_sent" ELSE "modify_failed")
          /\ p_out' = (IF ok THEN <<>> ELSE <<"rtnl_talk failed">>)
    /\ UNCHANGED <<ulong_bits, preferred_family, p_argv>>
    /\ UNCHANGED flushVars

NextModify == ipnh_modify_clause \/ ipnh_modify_talk

\* one add / replace / delete request built clause by clause
SpecModify == InitModify /\ [][NextModify]_vars

FamilyErrors == {"address family mismatch", "address of another family is expected"}

\* C9: once the family of the request is a concrete one (from the
\* preferred family, a via address, or dev / blackhole / unreachable /
\* prohibit turning an unresolved family into AF_INET) no later clause
\* changes it, and a via clause whose address is of another family ends the
\* build with a family-mismatch error: no request with such a clause
\* reaches the kernel.
C9_FamilyResolvedOnce ==
    p_pc \in {"modify", "modify_exit", "modify_sent", "modify_failed"} =>
        LET fs == p_req.families IN
        /\ fs[Len(fs)] = p_req.family
        /\ \A i, j \in 1..Len(fs) :
              (i < j /\ fs[i] # "AF_UNSPEC") => fs[j] = fs[i]
        /\ \A k \in 1..(p_req.next - 1) :
              p_argv[k].kw = "via" => p_argv[k].addr = p_req.family
        /\ (p_pc \in {"modify_sent", "modify_failed"}) =>
              \A k \in 1..Len(p_argv) :
                  p_argv[k].kw = "via" => p_argv[k].addr = p_req.family
        /\ (p_pc = "modify_exit" /\ p_argv[p_req.next].kw = "via"
               /\ p_req.family # "AF_UNSPEC"
               /\ p_argv[p_req.next].addr # p_req.family)
              => p_out[1] \in FamilyErrors
        /\ (p_pc = "modify" /\ p_req.next <= Len(p_argv)
               /\ p_argv[p_req.next].kw = "via"
               /\ p_req.family # "AF_UNSPEC"
               /\ p_argv[p_req.next].addr # p_req.family)
              => modify_clause(ulong_bits, p_req, p_argv[p_req.next]).exit \in FamilyErrors

\* via 10.0.0.1 via fe80::1
C9_Witness ==
    /\ p_pc = "modify_exit"
    /\ preferred_family = "AF_UNSPEC"
    /\ p_argv = << ModClause("via", "", "AF_UNSPEC", "AF_INET"),
                   ModClause("via", "", "AF_UNSPEC", "AF_INET6") >>
    /\ p_req.families = <<"AF_UNSPEC", "AF_INET">>
    /\ p_req.next = 2
    /\ p_out[1] \in FamilyErrors

\* ------------------------------------------------- decoding notifications
\* print_nexthop and print_nexthop_bucket are also the decoders of the
\* messages the kernel sends unasked (ip monitor hands each message to the
\* decoder of its class)
MaxEvents == 2

NexthopKinds == {"RTM_NEWNEXTHOP", "RTM_DELNEXTHOP"}
BucketKinds == {"RTM_NEWNEXTHOPBUCKET", "RTM_DELNEXTHOPBUCKET"}

\* a message with its kind (nlmsg_type) replaced
OfKind(m, kind) == [m EXCEPT !.type = kind]
\* a message cut shorter than its fixed header
Truncated(m) == [m EXCEPT !.short = TRUE]

NotifyMsgs ==
    { OfKind(NhMsg(nh), kind) : nh \in TableMixed, kind \in NexthopKinds }
    \cup { OfKind(BucketMsg(b), kind) : b \in BucketTable, kind \in BucketKinds }
    \cup { Truncated(OfKind(BucketMsg(b), kind)) : b \in BucketTable, kind \in BucketKinds }
    \cup { OfKind(NhMsg(nh), "RTM_NEWROUTE") : nh \in TableC1 }

InitNotify ==
    /\ pc = "notify"
    /\ filter = ZeroFilter
    /\ rth_del = FALSE
    /\ rth = "idle"
    /\ table = {}
    /\ stream \in SeqsUpTo(NotifyMsgs, MaxEvents)
    /\ noise = <<>>
    /\ action = "MONITOR"
    /\ all = FALSE
    /\ nhid = 0
    /\ rc = 0
    /\ out = <<>>
    /\ printed = <<>>
    /\ sent = <<>>
    /\ cbret = <<>>
    /\ argv = <<>>
    /\ succ = 0
    /\ faulted = FALSE
    /\ table0 = {}
    /\ cmds = 0
    /\ ParseIdle

\* the next message goes through decoder cb; p_req keeps the messages that
\* were decoded, in the order of the records in printed
Decode(r) ==
    /\ cbret' = Append(cbret, Call(r.ret, Head(stream), 0, FALSE))
    /\ printed' = printed \o SeqById(r.recs)
    /\ p_req' = (IF r.recs = {} THEN p_req ELSE Append(p_req, Head(stream)))
    /\ stream' = Tail(stream)
    /\ UNCHANGED <<ulong_bits, preferred_family, p_pc, p_argv, p_out>>
    /\ UNCHANGED <<pc, filter, rth_del, rth, table, noise, action, all, nhid,
                   rc, out, sent, argv, succ, faulted, table0, cmds>>

\* a nexthop message arrives: print_nexthop
notify_nexthop ==
    /\ pc = "notify"
    /\ stream # <<>>
    /\ Head(stream).type \in NexthopKinds
    /\ Decode(print_nexthop_cb(filter, Head(stream)))

\* a bucket message arrives: print_nexthop_bucket
notify_bucket ==
    /\ pc = "notify"
    /\ stream # <<>>
    /\ Head(stream).type \in BucketKinds
    /\ Decode(print_nexthop_bucket_cb(Head(stream)))

\* a message of another class is not for these decoders and is reported
\* as unknown
notify_other ==
    /\ pc = "notify"
    /\ stream # <<>>
    /\ Head(stream).type \notin NexthopKinds \cup BucketKinds
    /\ stream' = Tail(stream)
    /\ out' = Append(out, Line("Unknown message", 0))
    /\ UNCHANGED parseVars
    /\ UNCHANGED <<pc, filter, rth_del, rth, table, noise, action, all, nhid,
                   rc, printed, sent, cbret, argv, succ, faulted, table0, cmds>>

NextNotify == notify_nexthop \/ notify_bucket \/ notify_other

\* nexthop and bucket messages decoded as they arrive
SpecNotify == InitNotify /\ [][NextNotify]_vars

\* C11: a bucket message of either bucket kind that is long enough is
\* accepted (the decoder returns 0 and prints a record), and the record of
\* every accepted bucket message has its deleted flag set exactly when the
\* message is the bucket delete-notification.
C11_BucketDeletedFlag ==
    pc = "notify" =>
        /\ Len(p_req) = Len(printed)
        /\ \A k \in 1..Len(cbret) :
              (cbret[k].ret < 0) => (Len(printed) < Len(cbret))
        /\ \A k \in 1..Len(p_req) :
              p_req[k].type \in BucketKinds =>
                  (printed[k].deleted <=> p_req[k].type = "RTM_DELNEXTHOPBUCKET")

\* the nexthop decoder sets the flag from the kind of its own class
NexthopDeletedFlag ==
    pc = "notify" =>
        \A k \in 1..Len(p_req) :
            (k <= Len(printed) /\ p_req[k].type \in NexthopKinds) =>
                (printed[k].deleted <=> p_req[k].type = "RTM_DELNEXTHOP")

\* a bucket delete-notification was accepted and printed without "Deleted"
BucketDeleteNotFlagged ==
    /\ pc = "notify"
    /\ \E k \in 1..Len(p_req) :
          /\ p_req[k].type = "RTM_DELNEXTHOPBUCKET"
          /\ k <= Len(printed)
          /\ ~printed[k].deleted

\* ------------------------------------------------ the flush state machine
\* the command runs on: the process is scheduled and the kernel answers
\* every request, with a reply or an error
SpecFair == Init /\ [][Next]_vars /\ WF_vars(Step)

\* the state of the flush controller
Phase ==
    CASE pc \in {"idle", "flush_open"} -> "Idle"
      [] pc \in {"flush_again", "flush_dump"} ->
            IF all /\ filter.groups # 0 THEN "DumpingGroups" ELSE "DumpingSingles"
      [] pc \in {"flush_out", "done"} -> IF rc = 0 THEN "Done" ELSE "Failed"
      [] OTHER -> "Exit"

PhaseSteps ==
    { <<"Idle", "DumpingGroups">>, <<"Idle", "DumpingSingles">>, <<"Idle", "Failed">>,
      <<"DumpingGroups", "DumpingSingles">>, <<"DumpingGroups", "Failed">>,
      <<"DumpingSingles", "Done">>, <<"DumpingSingles", "Failed">> }

Dumps == { i \in 1..Len(sent) : sent[i].type = "DUMP" }
\* the k-th dump request of the command
DumpReq(k) ==
    sent[CHOOSE i \in Dumps : Cardinality({ j \in Dumps : j <= i }) = k].req

\* the dump passes of a flush, in every state of it
FlushPasses ==
    DumpFlush =>
        /\ Cardinality(Dumps) <= (IF all THEN 2 ELSE 1)
        /\ Phase = "DumpingGroups" => (all /\ Cardinality(Dumps) <= 1)
        /\ (Phase = "DumpingSingles" /\ all) => Cardinality(Dumps) >= 1
        /\ Cardinality(Dumps) >= 1 =>
              DumpReq(1) = nh_dump_filter(OwnFilter)
        /\ (all /\ Cardinality(Dumps) >= 1) => DumpReq(1) = { <<"NHA_GROUPS", 0>> }
        /\ Cardinality(Dumps) = 2 =>
              DumpReq(2) = nh_dump_filter([OwnFilter EXCEPT !.groups = 0])
        /\ Phase = "Done" =>
              /\ Cardinality(Dumps) = (IF all THEN 2 ELSE 1)
              /\ ~Failed(out)
        /\ Failed(out) => Phase = "Failed"

\* the steps of a flush: the phase changes along the arrows of the state
\* machine only, the groups-only phase is entered by a flush-all only, and
\* once the flush has failed no dump request is sent
FlushStep ==
    DumpFlush' =>
        /\ (Phase' = Phase \/ <<Phase, Phase'>> \in PhaseSteps)
        /\ Phase' = "DumpingGroups" => all'
        /\ (all' /\ Phase = "Idle") => Phase' \in {"Idle", "DumpingGroups", "Failed"}
        /\ (Failed(out) \/ Phase = "Failed") => (sent' = sent /\ Phase' = "Failed")

\* C12: a flush goes Idle -> DumpingGroups (flush-all only) ->
\* DumpingSingles -> Done | Failed and ends: a flush-all whose dumps succeed
\* makes exactly two dump passes, the first with the groups-only filter and
\* the second without it; a flush with selectors makes exactly one, with the
\* filter its selectors give; a failed dump request or dump ends the flush
\* as failed and no further dump is started.
C12_FlushStateMachine ==
    /\ []FlushPasses
    /\ [][FlushStep]_vars
    /\ (pc = "flush_open") ~> (pc = "done")

\* a flush-all that went through both passes, and the one pass of a flush
\* with a selector
C12_Witness ==
    /\ DumpFlush /\ all /\ Phase = "Done" /\ pc = "done"
    /\ table0 = TableMixed /\ table = {}
    /\ Cardinality(Dumps) = 2
    /\ DumpReq(1) = { <<"NHA_GROUPS", 0>> }
    /\ DumpReq(2) = {}

C12_WitnessSelector ==
    /\ DumpFlush /\ ~all /\ Phase = "Done" /\ pc = "done"
    /\ argv = << Clause("groups", 0), Clause("dev", 1) >>
    /\ Cardinality(Dumps) = 1
    /\ DumpReq(1) = { <<"NHA_GROUPS", 0>>, <<"NHA_OIF", 1>> }

\* ------------------------------------------------- rejected messages
DumpCommand == cmds > 0 /\ pc \in {"flush_dump", "list_dump", "bucket_dump"}
\* list id ID: the single-shot get
GetCommand ==
    cmds > 0 /\ action = "IPNH_LIST" /\ list_flush_args(ZeroFilter, argv).stop = "id"

\* this step is a call of the dump's callback that rejects the message
Rejects ==
    /\ DumpCommand
    /\ Len(cbret') = Len(cbret) + 1
    /\ cbret'[Len(cbret')].ret < 0

\* C13: in a dump (list, bucket list, flush) a message the callback rejects,
\* for its kind or for its length, is the only one rejected: the dump goes
\* on with the messages behind it and is not ended; in the single-shot get
\* the rejection fails the command.
C13_RejectedAlone ==
    /\ [][Rejects => (pc' = pc /\ stream' = Tail(stream) /\ out' = out)]_vars
    /\ []((GetCommand /\ pc = "done" /\ \E k \in 1..Len(cbret) : cbret[k].ret < 0)
             => rc = -1)

\* what the code does: the first rejection is the last call of the callback,
\* the messages behind it are dropped and the command fails with -2
RejectionEndsDump ==
    (cmds > 0 /\ ~GetCommand) =>
        /\ \A k \in 1..Len(cbret) : cbret[k].ret < 0 => k = Len(cbret)
        /\ (\E k \in 1..Len(cbret) : cbret[k].ret < 0) =>
              /\ pc \in {"flush_out", "done"}
              /\ stream = <<>>
              /\ rc = -2
              /\ \E i \in 1..Len(out) :
                    out[i].msg \in {"Dump terminated",
                                    "Dump terminated. Failed to flush nexthops"}

\* a list whose dump began with a message of another kind: nothing of the
\* two nexthops behind it was printed
DumpCutShort ==
    /\ pc = "done" /\ action = "IPNH_LIST" /\ argv = <<>> /\ cmds > 0
    /\ table0 = TableC1
    /\ Len(cbret) = 1 /\ cbret[1].ret < 0
    /\ printed = <<>>
    /\ rc = -2

=============================================================================
